---------------------------- MODULE Spec2Model ----------------------------
(***************************************************************************)
(* The reversible stepping engine of src/src/main.rs: State (t,            *)
(* macrostate, future_dice, past_dice, roll_die), Transition (idle,        *)
(* random_step, record), step_forward, step_backward, new, peturbed and    *)
(* the driver in main.                                                     *)
(*                                                                         *)
(* i32 values are modelled at their real width.  An i32 overflow panics    *)
(* when the build has overflow checks (debug profile) and wraps otherwise  *)
(* (release profile); the build is chosen once, in Init.  A u64 is a pair  *)
(* <<hi, lo>> of 32-bit halves, each written as the i32 with the same bit  *)
(* pattern.  The ChaCha8 generator is an external library: it is a fixed   *)
(* but unknown function from u64 seeds to dice, revealed one key at a time *)
(* (chacha holds the part revealed so far).                                *)
(***************************************************************************)
EXTENDS Integers, Sequences, FiniteSets, TLC

VARIABLES
    states,          \* instance name -> State (the fields of struct State)
    overflow_checks, \* TRUE: i32 overflow panics; FALSE: it wraps
    panicked,        \* TRUE once a step has panicked (the process is gone)
    chacha,          \* the generator's outputs revealed so far: key -> die
    faces,           \* the outputs the generator is explored over
    first_die,       \* history: instance -> (time index -> die of its first crossing)
    source_calls,    \* history: instance -> (time index -> calls of roll_die keyed by it)
    first_macro,     \* history: instance -> (time index -> macrostate when first there)
    last,            \* history: the last step taken (who, direction, die, ...)
    steps,           \* number of steps taken by the driver
    pc,              \* the driver's position
    tape,            \* round-trip driver: the Transitions applied forward, in order
    snap,            \* round-trip driver: the State before the sequence
    fwd_dice,        \* round-trip driver: dice consumed by the forward steps
    bwd_dice,        \* round-trip driver: dice consumed by the backward steps
    policy,          \* policy driver: time index -> the Transition fixed for it
    loop_t,          \* main: the loop variable t
    reads,           \* main: walk.macrostate as read at t = 5, per pass
    walk_trace,      \* main: walk.macrostate after each of walk's forward steps
    law              \* inverse-law check: the inputs and outputs of one application

vars == <<states, overflow_checks, panicked, chacha, faces, first_die,
          source_calls, first_macro, last, steps, pc, tape, snap, fwd_dice,
          bwd_dice, policy, loop_t, reads, walk_trace, law>>

---------------------------------------------------------------------------
(* i32 arithmetic (struct State: t: i32, macrostate: i32)                  *)

MaxI32 == 2147483647

MinI32 == -MaxI32 - 1

\* a + b leaves the i32 range
add_overflows(a, b) ==
    \/ b > 0 /\ a > MaxI32 - b
    \/ b < 0 /\ a < MinI32 - b

\* a + b modulo 2^32, without an intermediate value outside the i32 range
wrapping_add(a, b) ==
    IF b > 0 /\ a > MaxI32 - b THEN (a + MinI32) + (b + MinI32)
    ELSE IF b < 0 /\ a < MinI32 - b THEN (a - MinI32) + (b - MinI32)
    ELSE a + b

\* a - b leaves the i32 range
sub_overflows(a, b) ==
    \/ b < 0 /\ a > MaxI32 + b
    \/ b > 0 /\ a < MinI32 + b

\* a - b modulo 2^32
wrapping_sub(a, b) ==
    IF b < 0 /\ a > MaxI32 + b THEN (a + MinI32) - (b - MinI32)
    ELSE IF b > 0 /\ a < MinI32 + b THEN (a - MinI32) - (b + MinI32)
    ELSE a - b

\* The outcome of the i32 operator +: a panic, or a value
i32_add(a, b) ==
    IF add_overflows(a, b) /\ overflow_checks
    THEN [panic |-> TRUE, val |-> a]
    ELSE [panic |-> FALSE, val |-> wrapping_add(a, b)]

\* The outcome of the i32 operator -
i32_sub(a, b) ==
    IF sub_overflows(a, b) /\ overflow_checks
    THEN [panic |-> TRUE, val |-> a]
    ELSE [panic |-> FALSE, val |-> wrapping_sub(a, b)]

---------------------------------------------------------------------------
(* u64 values as <<hi, lo>>, and the key of the generator                  *)

RECURSIVE Xor32(_, _)
\* Bitwise exclusive or of two 32-bit patterns
Xor32(a, b) ==
    IF a = 0 THEN b
    ELSE IF a = -1 THEN -1 - b
    ELSE IF b = 0 THEN a
    ELSE IF b = -1 THEN -1 - a
    ELSE (((a % 2) + (b % 2)) % 2) + 2 * Xor32(a \div 2, b \div 2)

\* A bug: the magnitude of t is converted (t.unsigned_abs() as u64), so t and
\* -t give one u64
as_u64_unsigned_abs(t) == <<0, IF t < 0 /\ t > MinI32 THEN -t ELSE t>>

\* `self.t as u64`: an i32 is sign-extended to 64 bits
as_u64(t) == <<IF t < 0 THEN -1 ELSE 0, t>>

\* t ^ microstate_seed on u64
Xor64(x, y) == <<Xor32(x[1], y[1]), Xor32(x[2], y[2])>>

\* The dice of random_range(0..6)
Dice == 0 .. 5

\* The key uniform_rolls seeds the generator with, for time index t
generator_key(microstate_seed, t) == Xor64(as_u64(t), microstate_seed)

\* A bug: the dice come from one generator that keeps advancing, so what a
\* call returns does not depend on its key alone
roll_die_stream(self, t) == faces

\* The values (self.roll_die)(t as u64) may return: the revealed output of the
\* generator for this key, or any output not yet revealed
roll_die(self, t) ==
    LET key == generator_key(self.microstate_seed, t)
    IN  IF key \in DOMAIN chacha THEN {chacha[key]} ELSE faces

---------------------------------------------------------------------------
(* Transition and its three policies                                       *)

idle == [kind |-> "idle", val |-> 0]

random_step == [kind |-> "random_step", val |-> 0]

record(val) == [kind |-> "record", val |-> val]

\* A bug: record's forward closure adds the die, as random_step's does
evolve_forward_record_adds_die(transition, macrostate, dice) ==
    CASE transition.kind = "idle" -> [panic |-> FALSE, val |-> macrostate]
      [] transition.kind = "random_step" -> i32_add(macrostate, dice)
      [] transition.kind = "record" -> i32_add(macrostate, dice)

\* (transition.evolve_forward)(macrostate, dice)
evolve_forward(transition, macrostate, dice) ==
    CASE transition.kind = "idle" -> [panic |-> FALSE, val |-> macrostate]
      [] transition.kind = "random_step" -> i32_add(macrostate, dice)
      [] transition.kind = "record" -> i32_add(macrostate, transition.val)

\* A bug: random_step's backward closure adds the die, as the forward one does
evolve_backward_adds(transition, macrostate, dice) ==
    CASE transition.kind = "idle" -> [panic |-> FALSE, val |-> macrostate]
      [] transition.kind = "random_step" -> i32_add(macrostate, dice)
      [] transition.kind = "record" -> i32_sub(macrostate, transition.val)

\* (transition.evolve_backward)(macrostate, dice)
evolve_backward(transition, macrostate, dice) ==
    CASE transition.kind = "idle" -> [panic |-> FALSE, val |-> macrostate]
      [] transition.kind = "random_step" -> i32_sub(macrostate, dice)
      [] transition.kind = "record" -> i32_sub(macrostate, transition.val)

---------------------------------------------------------------------------
(* State                                                                   *)

\* State::new(macrostate), with the seed rand::rng() drew
new(macrostate, microstate_seed) ==
    [t |-> 0, macrostate |-> macrostate, future_dice |-> <<>>,
     past_dice |-> <<>>, microstate_seed |-> microstate_seed]

\* A bug: the new State starts its clock at 0, as new does
peturbed_restarts_clock(old_state, microstate_seed) ==
    [t |-> 0, macrostate |-> old_state.macrostate,
     future_dice |-> <<>>, past_dice |-> <<>>,
     microstate_seed |-> microstate_seed]

\* State::peturbed(old_state), with the seed rand::rng() drew
peturbed(old_state, microstate_seed) ==
    [t |-> old_state.t, macrostate |-> old_state.macrostate,
     future_dice |-> <<>>, past_dice |-> <<>>,
     microstate_seed |-> microstate_seed]

\* Vec::pop: the vector without its tail element
pop(v) == SubSeq(v, 1, Len(v) - 1)

\* The time index whose die step_forward takes: self.t, read before t += 1
forward_index(self) == self.t

\* A bug: t is incremented first, so a first-visit forward step from t is
\* keyed by t + 1 and not by t
step_forward_increments_first(self, transition, roll) ==
    LET inc == i32_add(self.t, 1)
        s1 == [self EXCEPT !.t = inc.val]
        cached == Len(s1.future_dice) > 0
        die == IF cached THEN s1.future_dice[Len(s1.future_dice)] ELSE roll
        s2 == IF cached THEN [s1 EXCEPT !.future_dice = pop(@)] ELSE s1
        ev == evolve_forward(transition, s2.macrostate, die)
        s3 == [s2 EXCEPT !.macrostate = ev.val]
        s4 == [s3 EXCEPT !.past_dice = Append(@, die)]
        out == [die |-> die, key_index |-> inc.val, rolled |-> ~cached]
    IN  IF inc.panic THEN [self |-> self, panic |-> TRUE, began |-> FALSE] @@ out
        ELSE IF ev.panic THEN [self |-> s2, panic |-> TRUE, began |-> TRUE] @@ out
        ELSE [self |-> s4, panic |-> FALSE, began |-> TRUE] @@ out

\* step_forward up to its return or its panic.  roll is the value roll_die
\* returns if it is called.  The result holds the State as the step leaves
\* it, whether it panicked, the die, the time index roll_die is keyed with,
\* whether roll_die was called, and whether the step got as far as the die.
step_forward(self, transition, roll) ==
    LET cached == Len(self.future_dice) > 0
        die == IF cached THEN self.future_dice[Len(self.future_dice)] ELSE roll
        s1 == IF cached THEN [self EXCEPT !.future_dice = pop(@)] ELSE self
        ev == evolve_forward(transition, s1.macrostate, die)
        s2 == [s1 EXCEPT !.macrostate = ev.val]
        s3 == [s2 EXCEPT !.past_dice = Append(@, die)]
        inc == i32_add(s3.t, 1)
        s4 == [s3 EXCEPT !.t = inc.val]
        out == [die |-> die, key_index |-> forward_index(self),
                rolled |-> ~cached, began |-> TRUE]
    IN  IF ev.panic THEN [self |-> s1, panic |-> TRUE] @@ out
        ELSE IF inc.panic THEN [self |-> s3, panic |-> TRUE] @@ out
        ELSE [self |-> s4, panic |-> FALSE] @@ out

\* A bug: the die is not pushed on future_dice
step_backward_no_push(self, transition, roll) ==
    LET dec == i32_sub(self.t, 1)
        s1 == [self EXCEPT !.t = dec.val]
        cached == Len(s1.past_dice) > 0
        die == IF cached THEN s1.past_dice[Len(s1.past_dice)] ELSE roll
        s2 == IF cached THEN [s1 EXCEPT !.past_dice = pop(@)] ELSE s1
        ev == evolve_backward(transition, s2.macrostate, die)
        s3 == [s2 EXCEPT !.macrostate = ev.val]
        out == [die |-> die, key_index |-> dec.val, rolled |-> ~cached]
    IN  IF dec.panic THEN [self |-> self, panic |-> TRUE, began |-> FALSE] @@ out
        ELSE IF ev.panic THEN [self |-> s2, panic |-> TRUE, began |-> TRUE] @@ out
        ELSE [self |-> s3, panic |-> FALSE, began |-> TRUE] @@ out

\* A bug: the die is taken from the head of past_dice, not from its tail
step_backward_pops_head(self, transition, roll) ==
    LET dec == i32_sub(self.t, 1)
        s1 == [self EXCEPT !.t = dec.val]
        cached == Len(s1.past_dice) > 0
        die == IF cached THEN s1.past_dice[1] ELSE roll
        s2 == IF cached THEN [s1 EXCEPT !.past_dice = Tail(@)] ELSE s1
        ev == evolve_backward(transition, s2.macrostate, die)
        s3 == [s2 EXCEPT !.macrostate = ev.val]
        s4 == [s3 EXCEPT !.future_dice = Append(@, die)]
        out == [die |-> die, key_index |-> dec.val, rolled |-> ~cached]
    IN  IF dec.panic THEN [self |-> self, panic |-> TRUE, began |-> FALSE] @@ out
        ELSE IF ev.panic THEN [self |-> s2, panic |-> TRUE, began |-> TRUE] @@ out
        ELSE [self |-> s4, panic |-> FALSE, began |-> TRUE] @@ out

\* A bug: the die is looked up before t is decremented, so a first-visit
\* backward step from t is keyed by t and not by t - 1
step_backward_lookup_first(self, transition, roll) ==
    LET cached == Len(self.past_dice) > 0
        die == IF cached THEN self.past_dice[Len(self.past_dice)] ELSE roll
        s1 == IF cached THEN [self EXCEPT !.past_dice = pop(@)] ELSE self
        dec == i32_sub(self.t, 1)
        s2 == [s1 EXCEPT !.t = dec.val]
        ev == evolve_backward(transition, s2.macrostate, die)
        s3 == [s2 EXCEPT !.macrostate = ev.val]
        s4 == [s3 EXCEPT !.future_dice = Append(@, die)]
        out == [die |-> die, key_index |-> self.t, rolled |-> ~cached, began |-> TRUE]
    IN  IF dec.panic THEN [self |-> s1, panic |-> TRUE] @@ out
        ELSE IF ev.panic THEN [self |-> s2, panic |-> TRUE] @@ out
        ELSE [self |-> s4, panic |-> FALSE] @@ out

\* A bug: the die is put at the head of future_dice, not at its tail
step_backward_pushes_head(self, transition, roll) ==
    LET dec == i32_sub(self.t, 1)
        s1 == [self EXCEPT !.t = dec.val]
        cached == Len(s1.past_dice) > 0
        die == IF cached THEN s1.past_dice[Len(s1.past_dice)] ELSE roll
        s2 == IF cached THEN [s1 EXCEPT !.past_dice = pop(@)] ELSE s1
        ev == evolve_backward(transition, s2.macrostate, die)
        s3 == [s2 EXCEPT !.macrostate = ev.val]
        s4 == [s3 EXCEPT !.future_dice = <<die>> \o @]
        out == [die |-> die, key_index |-> dec.val, rolled |-> ~cached]
    IN  IF dec.panic THEN [self |-> self, panic |-> TRUE, began |-> FALSE] @@ out
        ELSE IF ev.panic THEN [self |-> s2, panic |-> TRUE, began |-> TRUE] @@ out
        ELSE [self |-> s4, panic |-> FALSE, began |-> TRUE] @@ out

\* step_backward up to its return or its panic
step_backward(self, transition, roll) ==
    LET dec == i32_sub(self.t, 1)
        s1 == [self EXCEPT !.t = dec.val]
        cached == Len(s1.past_dice) > 0
        die == IF cached THEN s1.past_dice[Len(s1.past_dice)] ELSE roll
        s2 == IF cached THEN [s1 EXCEPT !.past_dice = pop(@)] ELSE s1
        ev == evolve_backward(transition, s2.macrostate, die)
        s3 == [s2 EXCEPT !.macrostate = ev.val]
        s4 == [s3 EXCEPT !.future_dice = Append(@, die)]
        out == [die |-> die, key_index |-> dec.val, rolled |-> ~cached]
    IN  IF dec.panic THEN [self |-> self, panic |-> TRUE, began |-> FALSE] @@ out
        ELSE IF ev.panic THEN [self |-> s2, panic |-> TRUE, began |-> TRUE] @@ out
        ELSE [self |-> s4, panic |-> FALSE, began |-> TRUE] @@ out

---------------------------------------------------------------------------
(* Bounds of the exploration                                               *)

\* Steps the free driver takes
MaxSteps == 3

\* The instances main creates
Ids == {"walk", "memory"}

\* Seeds rand::rng().random() may have drawn
Seeds == {<<0, 0>>, <<-1, 5>>}

\* A bug: the range of the draw includes 6, as random_range(0..=6) would
FaceSets_inclusive == {{0, 6}, {2, 3}}

\* The generator's outputs are explored two faces at a time: the two ends
\* of the range, or the two faces in its middle
FaceSets == {{0, 5}, {2, 3}}

\* Where a State may stand when it is made: <<t, macrostate>>.  new gives
\* t = 0 and any macrostate; peturbed copies both from a State that may be
\* anywhere on its trajectory.
Births ==
    {<<0, 0>>, <<MaxI32 - 1, MaxI32 - 2>>, <<MinI32 + 1, MinI32 + 2>>}

\* The States a run may start from, made by new or by peturbed
InitialStates(seeds) ==
    {new(b[2], s) : b \in {c \in Births : c[1] = 0}, s \in seeds}
    \cup {peturbed([t |-> b[1], macrostate |-> b[2]], s) : b \in Births, s \in seeds}

\* The Transitions a driver hands to a step of instance id: the two fixed
\* policies, and record(...) of another instance's macrostate, as in main
Transitions(id) ==
    {idle, random_step} \cup {record(states[o].macrostate) : o \in Ids \ {id}}

---------------------------------------------------------------------------
(* One step of an instance, with the history variables                     *)

\* A bug: the instances share one State, so a step of one is a step of all
Commit_shared(id, dir, transition, res) ==
    LET key == generator_key(states[id].microstate_seed, res.key_index)
        called == res.began /\ res.rolled
        interval == IF dir = "forward" THEN states[id].t ELSE res.self.t
    IN  /\ states' = [o \in Ids |-> res.self]
        /\ panicked' = res.panic
        /\ chacha' = IF called THEN (key :> res.die) @@ chacha ELSE chacha
        /\ first_die' =
               IF res.began /\ interval \notin DOMAIN first_die[id]
               THEN [first_die EXCEPT ![id] = (interval :> res.die) @@ @]
               ELSE first_die
        /\ source_calls' =
               IF called
               THEN [source_calls EXCEPT ![id] =
                        IF res.key_index \in DOMAIN @
                        THEN [@ EXCEPT ![res.key_index] = @ + 1]
                        ELSE (res.key_index :> 1) @@ @]
               ELSE source_calls
        /\ first_macro' =
               IF ~res.panic /\ res.self.t \notin DOMAIN first_macro[id]
               THEN [first_macro EXCEPT ![id] = (res.self.t :> res.self.macrostate) @@ @]
               ELSE first_macro
        /\ last' = [who |-> id, dir |-> dir, transition |-> transition,
                    before |-> states[id], die |-> res.die, interval |-> interval,
                    key_index |-> res.key_index, rolled |-> called,
                    cached |-> res.began /\ ~res.rolled,
                    began |-> res.began, panic |-> res.panic]
        /\ steps' = steps + 1
        /\ UNCHANGED <<overflow_checks, faces>>

\* The result res of a step of instance id becomes the state.  The interval
\* crossed is named by its lower end: the t before a forward step, the t
\* after a backward step.
Commit(id, dir, transition, res) ==
    LET key == generator_key(states[id].microstate_seed, res.key_index)
        called == res.began /\ res.rolled
        interval == IF dir = "forward" THEN states[id].t ELSE res.self.t
    IN  /\ states' = [states EXCEPT ![id] = res.self]
        /\ panicked' = res.panic
        /\ chacha' = IF called THEN (key :> res.die) @@ chacha ELSE chacha
        /\ first_die' =
               IF res.began /\ interval \notin DOMAIN first_die[id]
               THEN [first_die EXCEPT ![id] = (interval :> res.die) @@ @]
               ELSE first_die
        /\ source_calls' =
               IF called
               THEN [source_calls EXCEPT ![id] =
                        IF res.key_index \in DOMAIN @
                        THEN [@ EXCEPT ![res.key_index] = @ + 1]
                        ELSE (res.key_index :> 1) @@ @]
               ELSE source_calls
        /\ first_macro' =
               IF ~res.panic /\ res.self.t \notin DOMAIN first_macro[id]
               THEN [first_macro EXCEPT ![id] = (res.self.t :> res.self.macrostate) @@ @]
               ELSE first_macro
        /\ last' = [who |-> id, dir |-> dir, transition |-> transition,
                    before |-> states[id], die |-> res.die, interval |-> interval,
                    key_index |-> res.key_index, rolled |-> called,
                    cached |-> res.began /\ ~res.rolled,
                    began |-> res.began, panic |-> res.panic]
        /\ steps' = steps + 1
        /\ UNCHANGED <<overflow_checks, faces>>

\* instance.step_forward(&transition).  roll is what the generator returns
\* for the key the step hands it, if the step calls roll_die at all.
Forward(id, transition) ==
    \E roll \in faces :
        \E res \in {step_forward(states[id], transition, roll)} :
            /\ IF res.began /\ res.rolled
               THEN roll \in roll_die(states[id], res.key_index)
               ELSE roll = CHOOSE f \in faces : TRUE
            /\ Commit(id, "forward", transition, res)

\* instance.step_backward(&transition)
Backward(id, transition) ==
    \E roll \in faces :
        \E res \in {step_backward(states[id], transition, roll)} :
            /\ IF res.began /\ res.rolled
               THEN roll \in roll_die(states[id], res.key_index)
               ELSE roll = CHOOSE f \in faces : TRUE
            /\ Commit(id, "backward", transition, res)

\* No step taken yet
NoStep == [who |-> "nobody", dir |-> "none", transition |-> idle,
           before |-> new(0, <<0, 0>>), die |-> 0, interval |-> 0, key_index |-> 0,
           rolled |-> FALSE, cached |-> FALSE, began |-> FALSE, panic |-> FALSE]

\* No application of a Transition under way
NoLaw == [pc |-> "off", transition |-> idle, m |-> 0, d |-> 0,
          fwd |-> [panic |-> FALSE, val |-> 0], bwd |-> [panic |-> FALSE, val |-> 0]]

\* What every specification's Init shares, given the instances and the faces
Start(sts, fs) ==
    /\ states = sts
    /\ overflow_checks \in BOOLEAN
    /\ panicked = FALSE
    /\ chacha = <<>>
    /\ faces = fs
    /\ first_die = [id \in Ids |-> <<>>]
    /\ source_calls = [id \in Ids |-> <<>>]
    /\ first_macro = [id \in Ids |-> (sts[id].t :> sts[id].macrostate)]
    /\ last = NoStep
    /\ steps = 0
    /\ tape = <<>>
    /\ snap = sts["walk"]
    /\ fwd_dice = <<>>
    /\ bwd_dice = <<>>
    /\ policy = <<>>
    /\ loop_t = 0
    /\ reads = <<>>
    /\ walk_trace = <<>>

\* The two instances of a run
Pair(w, m) == [id \in Ids |-> IF id = "walk" THEN w ELSE m]

DriverIdle == UNCHANGED <<pc, tape, snap, fwd_dice, bwd_dice, policy, loop_t,
                          reads, walk_trace, law>>

---------------------------------------------------------------------------
(* The free driver: any step of any instance with any Transition           *)

Init ==
    /\ \E w \in InitialStates({<<0, 0>>}), fs \in FaceSets :
           Start(Pair(w, new(0, <<-1, 5>>)), fs)
    /\ pc = "free"
    /\ law = NoLaw

StepForward ==
    /\ pc = "free" /\ ~panicked /\ steps < MaxSteps
    /\ \E id \in Ids : \E transition \in Transitions(id) : Forward(id, transition)
    /\ DriverIdle

StepBackward ==
    /\ pc = "free" /\ ~panicked /\ steps < MaxSteps
    /\ \E id \in Ids : \E transition \in Transitions(id) : Backward(id, transition)
    /\ DriverIdle

Next == StepForward \/ StepBackward

Spec == Init /\ [][Next]_vars

---------------------------------------------------------------------------
(* Properties of the free driver                                           *)

\* The State of the instance that took the last step, as the step left it
After == states[last.who]

\* A step has been taken, and it returned
Returned == last.who \in Ids /\ ~last.panic

\* The time index past_dice[j] of State s stands for
past_index(s, j) == wrapping_sub(s.t, Len(s.past_dice) - j + 1)

\* The time index future_dice[j] of State s stands for
future_index(s, j) == wrapping_add(s.t, Len(s.future_dice) - j)

\* C4: history exclusivity (I1).  After any sequence of steps, the die of
\* every time index crossed since construction is stored exactly once: in
\* past_dice when the index is below t, in future_dice otherwise; and
\* len(past_dice) + len(future_dice) is the number of distinct indices crossed.
C4_HistoryExclusivity ==
    ~panicked =>
        \A id \in Ids :
            LET s == states[id]
                crossed == DOMAIN first_die[id]
                np == Len(s.past_dice)
                nf == Len(s.future_dice)
            IN  /\ np + nf = Cardinality(crossed)
                /\ \A i \in crossed :
                       IF i < s.t
                       THEN \E j \in 1 .. np :
                                /\ past_index(s, j) = i
                                /\ s.past_dice[j] = first_die[id][i]
                       ELSE \E j \in 1 .. nf :
                                /\ future_index(s, j) = i
                                /\ s.future_dice[j] = first_die[id][i]

\* C5: replay determinism (I2).  The die of the first crossing of an interval
\* is the die source's value for that time index; a later crossing takes the
\* cached die, and the die source is called once per index at most.
C5_ReplayDeterminism ==
    /\ \A id \in Ids :
           /\ \A i \in DOMAIN first_die[id] :
                  LET key == generator_key(states[id].microstate_seed, i)
                  IN  key \in DOMAIN chacha /\ first_die[id][i] = chacha[key]
           /\ \A i \in DOMAIN source_calls[id] :
                  source_calls[id][i] = 1 /\ i \in DOMAIN first_die[id]
    /\ last.began =>
           /\ last.die = first_die[last.who][last.interval]
           /\ last.rolled => last.key_index = last.interval

\* C5 witness: an interval crossed before is crossed again, from the cache,
\* after at least two distinct intervals were crossed
C5_Witness ==
    /\ last.cached /\ ~last.panic
    /\ last.die > 0
    /\ Cardinality(DOMAIN first_die[last.who]) >= 2

\* C6: single-step time (I3).  A step_forward that returns has changed t to
\* exactly t + 1, a step_backward that returns to exactly t - 1.
C6_SingleStepTime ==
    Returned =>
        IF last.dir = "forward"
        THEN last.before.t < MaxI32 /\ After.t = last.before.t + 1
        ELSE last.before.t > MinI32 /\ After.t = last.before.t - 1

\* C8: no failure in normal operation.  No step with a built-in Transition
\* panics, whatever the macrostate, the time index and the die.
C8_NoPanic == ~panicked

---------------------------------------------------------------------------
(* The inverse law, one application at a time                              *)

\* The i32 values the law is tried on: both ends of the range and the middle
LawValues == {MinI32, MinI32 + 1, MinI32 + 5, -6, -1, 0, 1, 6, MaxI32 - 5, MaxI32 - 1, MaxI32}

\* The built-in policies, record(v) with every captured v tried
LawTransitions == {idle, random_step} \cup {record(v) : v \in LawValues}

InitLaw ==
    /\ Start(Pair(new(0, <<0, 0>>), new(0, <<0, 0>>)), Dice)
    /\ pc = "law"
    /\ \E transition \in LawTransitions, m \in LawValues, d \in Dice :
           law = [NoLaw EXCEPT !.pc = "input", !.transition = transition,
                               !.m = m, !.d = d]

\* (transition.evolve_forward)(m, d)
ApplyForward ==
    /\ law.pc = "input"
    /\ law' = [law EXCEPT !.pc = IF evolve_forward(law.transition, law.m, law.d).panic
                                 THEN "panicked" ELSE "forwarded",
                          !.fwd = evolve_forward(law.transition, law.m, law.d)]
    /\ UNCHANGED <<states, overflow_checks, panicked, chacha, faces, first_die,
                   source_calls, first_macro, last, steps, pc, tape, snap,
                   fwd_dice, bwd_dice, policy, loop_t, reads, walk_trace>>

\* (transition.evolve_backward)(the forward result, d)
ApplyBackward ==
    /\ law.pc = "forwarded"
    /\ law' = [law EXCEPT !.pc = IF evolve_backward(law.transition, law.fwd.val, law.d).panic
                                 THEN "panicked" ELSE "done",
                          !.bwd = evolve_backward(law.transition, law.fwd.val, law.d)]
    /\ UNCHANGED <<states, overflow_checks, panicked, chacha, faces, first_die,
                   source_calls, first_macro, last, steps, pc, tape, snap,
                   fwd_dice, bwd_dice, policy, loop_t, reads, walk_trace>>

NextLaw == ApplyForward \/ ApplyBackward

SpecLaw == InitLaw /\ [][NextLaw]_vars

\* C7: the inverse law.  For idle, random_step and record(v), every i32 m,
\* every die d in [0,6) and every captured i32 v, evolve_forward(m, d) has a
\* value and evolve_backward of that value and d is m.
C7_InverseLaw ==
    /\ law.pc # "panicked"
    /\ law.pc = "done" => law.bwd.val = law.m

---------------------------------------------------------------------------
(* The round-trip driver: some steps to reach a State s, then k forward    *)
(* steps, then k backward steps with the same Transitions in reverse order *)

\* Steps taken to reach s
MaxPre == 2

\* The largest k
MaxK == 2

\* The value memory holds for record(memory.macrostate)
Recorded == 7

InitRoundTrip ==
    /\ \E w \in InitialStates({<<0, 0>>}), fs \in FaceSets :
           Start(Pair(w, new(Recorded, <<-1, 5>>)), fs)
    /\ pc = "pre"
    /\ law = NoLaw

RoundTripIdle == UNCHANGED <<pc, tape, snap, fwd_dice, bwd_dice, policy, loop_t,
                             reads, walk_trace, law>>

PreForward ==
    /\ pc = "pre" /\ ~panicked /\ steps < MaxPre
    /\ Forward("walk", random_step)
    /\ RoundTripIdle

PreBackward ==
    /\ pc = "pre" /\ ~panicked /\ steps < MaxPre
    /\ Backward("walk", random_step)
    /\ RoundTripIdle

\* s is the State walk is in now
Begin ==
    /\ pc = "pre" /\ ~panicked
    /\ pc' = "fwd"
    /\ snap' = states["walk"]
    /\ UNCHANGED <<states, overflow_checks, panicked, chacha, faces, first_die,
                   source_calls, first_macro, last, steps, tape, fwd_dice,
                   bwd_dice, policy, loop_t, reads, walk_trace, law>>

RoundTripForward ==
    /\ pc = "fwd" /\ ~panicked /\ Len(tape) < MaxK
    /\ \E transition \in Transitions("walk") :
           /\ Forward("walk", transition)
           /\ tape' = Append(tape, transition)
    /\ fwd_dice' = Append(fwd_dice, last'.die)
    /\ UNCHANGED <<pc, snap, bwd_dice, policy, loop_t, reads, walk_trace, law>>

Turn ==
    /\ pc = "fwd" /\ ~panicked
    /\ pc' = "bwd"
    /\ UNCHANGED <<states, overflow_checks, panicked, chacha, faces, first_die,
                   source_calls, first_macro, last, steps, tape, snap, fwd_dice,
                   bwd_dice, policy, loop_t, reads, walk_trace, law>>

\* The i-th backward step applies the Transition of the (k+1-i)-th forward step
RoundTripBackward ==
    /\ pc = "bwd" /\ ~panicked /\ Len(bwd_dice) < Len(tape)
    /\ Backward("walk", tape[Len(tape) - Len(bwd_dice)])
    /\ bwd_dice' = Append(bwd_dice, last'.die)
    /\ UNCHANGED <<pc, tape, snap, fwd_dice, policy, loop_t, reads, walk_trace, law>>

NextRoundTrip ==
    \/ PreForward
    \/ PreBackward
    \/ Begin
    \/ RoundTripForward
    \/ Turn
    \/ RoundTripBackward

SpecRoundTrip == InitRoundTrip /\ [][NextRoundTrip]_vars

\* The k forward steps and the k backward steps have all returned
Complete == pc = "bwd" /\ Len(bwd_dice) = Len(tape) /\ ~panicked

\* The sequence v in reverse order
Reverse(v) == [j \in 1 .. Len(v) |-> v[Len(v) + 1 - j]]

\* C1: round trip of the summary.  k forward steps followed by k backward
\* steps with the same Transitions in reverse order leave macrostate and t as
\* they were before the sequence.
C1_RoundTripSummary ==
    Complete =>
        /\ states["walk"].macrostate = snap.macrostate
        /\ states["walk"].t = snap.t

\* C1 witness: a round trip of k = 2 from a State with a past, in which a
\* random_step moved the macrostate by a die that is not 0
C1_Witness ==
    /\ Complete
    /\ Len(fwd_dice) = 2
    /\ snap.past_dice # <<>>
    /\ \E j \in 1 .. 2 : fwd_dice[j] > 0 /\ tape[j] = random_step

\* C2 as claimed: the round trip leaves past_dice and future_dice equal,
\* element for element, to their contents before the sequence.
C2_RoundTripHistories ==
    Complete =>
        /\ states["walk"].past_dice = snap.past_dice
        /\ states["walk"].future_dice = snap.future_dice

\* C2 amended: the round trip leaves past_dice as it was; future_dice is as
\* it was when it held at least k dice before the sequence, and otherwise
\* holds k dice: the ones it held, at its tail, below them the dice the
\* forward steps drew, the last drawn at the head.
C2_RoundTripHistoriesAmended ==
    Complete =>
        LET k == Len(fwd_dice)
            n == Len(snap.future_dice)
        IN  /\ states["walk"].past_dice = snap.past_dice
            /\ states["walk"].future_dice =
                   Reverse(SubSeq(fwd_dice, n + 1, k)) \o snap.future_dice

\* C2 witness: a round trip of k = 2 from a State whose future_dice held one die
C2_Witness ==
    /\ Complete
    /\ Len(fwd_dice) = 2
    /\ Len(snap.future_dice) = 1
    /\ Len(states["walk"].future_dice) = 2

\* C10: scenario A for any k.  From a fresh State, k forward steps and then k
\* backward steps, all with random_step, bring macrostate back to m0; the i-th
\* backward step consumes the die of the (k+1-i)-th forward step; future_dice
\* then holds the forward dice in reverse order, the first one at the tail.
C10_ScenarioA ==
    (/\ Complete
     /\ snap.past_dice = <<>> /\ snap.future_dice = <<>>
     /\ \A j \in 1 .. Len(tape) : tape[j] = random_step) =>
        /\ states["walk"].macrostate = snap.macrostate
        /\ Len(bwd_dice) = Len(fwd_dice)
        /\ \A i \in 1 .. Len(bwd_dice) : bwd_dice[i] = fwd_dice[Len(fwd_dice) + 1 - i]
        /\ states["walk"].future_dice = Reverse(fwd_dice)

\* C10 witness: k = 2 from a fresh State, the two forward dice different
C10_Witness ==
    /\ Complete
    /\ snap.past_dice = <<>> /\ snap.future_dice = <<>>
    /\ tape = <<random_step, random_step>>
    /\ fwd_dice[1] # fwd_dice[2]
    /\ states["walk"].future_dice = <<fwd_dice[2], fwd_dice[1]>>

---------------------------------------------------------------------------
(* The policy driver: one Transition per time index, chosen when the index *)
(* is first crossed and applied at every crossing, in either direction     *)

\* Steps the policy driver takes
MaxPolicySteps == 3

InitPolicy ==
    /\ \E w \in InitialStates({<<0, 0>>}), fs \in FaceSets :
           Start(Pair(w, new(Recorded, <<-1, 5>>)), fs)
    /\ pc = "policy"
    /\ law = NoLaw

\* The Transitions the driver may apply when crossing interval i
PolicyChoices(i) ==
    IF i \in DOMAIN policy THEN {policy[i]} ELSE Transitions("walk")

PolicyForward ==
    /\ pc = "policy" /\ ~panicked /\ steps < MaxPolicySteps
    /\ LET i == states["walk"].t
       IN  \E transition \in PolicyChoices(i) :
               /\ Forward("walk", transition)
               /\ policy' = (i :> transition) @@ policy
    /\ UNCHANGED <<pc, tape, snap, fwd_dice, bwd_dice, loop_t, reads, walk_trace, law>>

PolicyBackward ==
    /\ pc = "policy" /\ ~panicked /\ steps < MaxPolicySteps
    /\ LET i == wrapping_sub(states["walk"].t, 1)
       IN  \E transition \in PolicyChoices(i) :
               /\ Backward("walk", transition)
               /\ policy' = (i :> transition) @@ policy
    /\ UNCHANGED <<pc, tape, snap, fwd_dice, bwd_dice, loop_t, reads, walk_trace, law>>

NextPolicy == PolicyForward \/ PolicyBackward

SpecPolicy == InitPolicy /\ [][NextPolicy]_vars

\* C3: path independence.  With one Transition per time index, after any
\* sequence of forward and backward steps the macrostate at a time index is
\* the macrostate of the first visit of that index, and the die of a crossing
\* is the die of the first crossing of the same interval.
C3_PathIndependence ==
    ~panicked =>
        /\ states["walk"].t \in DOMAIN first_macro["walk"]
        /\ states["walk"].macrostate = first_macro["walk"][states["walk"].t]
        /\ last.began => last.die = first_die[last.who][last.interval]

\* C3 witness: after three steps walk is back at a time index it left, by a
\* step that took a cached die and changed the macrostate, having visited
\* three time indices
C3_Witness ==
    /\ ~panicked
    /\ steps = 3
    /\ last.cached
    /\ states["walk"].macrostate # last.before.macrostate
    /\ Cardinality(DOMAIN first_macro["walk"]) = 3

---------------------------------------------------------------------------
(* The driver in main                                                      *)

\* for t in 0..10
LoopEnd == 10

\* if t == 5
RecordAt == 5

\* let mut walk = State::new(0); let mut memory = State::new(0);
InitMain ==
    /\ \E sw \in Seeds, sm \in Seeds, fs \in FaceSets :
           Start(Pair(new(0, sw), new(0, sm)), fs)
    /\ pc = "forward_pass"
    /\ law = NoLaw

\* The body of the first loop at t
MainForwardStep(t) ==
    IF t = RecordAt
    THEN /\ Forward("memory", record(states["walk"].macrostate))
         /\ reads' = Append(reads, states["walk"].macrostate)
         /\ walk_trace' = walk_trace
    ELSE /\ Forward("walk", random_step)
         /\ reads' = reads
         /\ walk_trace' = Append(walk_trace, states["walk"].macrostate')

\* A bug: the second loop steps memory at t = 4, one iteration late
MainBackwardStep_late(t) ==
    IF t = RecordAt - 1
    THEN /\ Backward("memory", record(states["walk"].macrostate))
         /\ reads' = Append(reads, states["walk"].macrostate)
    ELSE /\ Backward("walk", random_step)
         /\ reads' = reads

\* The body of the second loop at t
MainBackwardStep(t) ==
    IF t = RecordAt
    THEN /\ Backward("memory", record(states["walk"].macrostate))
         /\ reads' = Append(reads, states["walk"].macrostate)
    ELSE /\ Backward("walk", random_step)
         /\ reads' = reads

\* for t in 0..10 { ... }
MainForward ==
    /\ pc = "forward_pass" /\ ~panicked
    /\ MainForwardStep(loop_t)
    /\ IF loop_t + 1 < LoopEnd
       THEN pc' = pc /\ loop_t' = loop_t + 1
       ELSE pc' = "backward_pass" /\ loop_t' = LoopEnd - 1
    /\ UNCHANGED <<tape, snap, fwd_dice, bwd_dice, policy, law>>

\* for t in (0..10).rev() { ... }
MainBackward ==
    /\ pc = "backward_pass" /\ ~panicked
    /\ MainBackwardStep(loop_t)
    /\ IF loop_t > 0
       THEN pc' = pc /\ loop_t' = loop_t - 1
       ELSE pc' = "done" /\ loop_t' = loop_t
    /\ UNCHANGED <<tape, snap, fwd_dice, bwd_dice, policy, walk_trace, law>>

NextMain == MainForward \/ MainBackward

SpecMain == InitMain /\ [][NextMain]_vars

\* C9: scenario B.  main ends with walk.macrostate = 0 and
\* memory.macrostate = 0; after the forward pass memory.macrostate is walk's
\* macrostate as it stood after walk's first five steps; the value read at
\* t = 5 in the backward pass is the value read at t = 5 in the forward pass.
C9_ScenarioB ==
    /\ pc = "done" =>
           states["walk"].macrostate = 0 /\ states["memory"].macrostate = 0
    /\ (pc = "backward_pass" /\ loop_t = LoopEnd - 1) =>
           states["memory"].macrostate = walk_trace[RecordAt]
    /\ Len(reads) = 2 => reads[2] = reads[1]

\* C9 witness: main has ended, and the value recorded was neither 0 nor
\* walk's macrostate at the end of the forward pass
C9_Witness ==
    /\ pc = "done" /\ ~panicked
    /\ Len(walk_trace) = LoopEnd - 1
    /\ walk_trace[RecordAt] # 0
    /\ walk_trace[LoopEnd - 1] # walk_trace[RecordAt]
    /\ reads = <<walk_trace[RecordAt], walk_trace[RecordAt]>>

---------------------------------------------------------------------------
(* The origin driver: backward steps from a State that has no past, then   *)
(* one forward step                                                        *)

\* Backward steps taken before the forward step
MaxBack == 2

InitOrigin ==
    /\ \E w \in InitialStates(Seeds), fs \in FaceSets :
           Start(Pair(w, new(Recorded, <<-1, 5>>)), fs)
    /\ pc = "origin"
    /\ law = NoLaw

\* walk.step_backward(&transition) with walk.past_dice empty
OriginBackward ==
    /\ pc = "origin" /\ ~panicked /\ steps < MaxBack
    /\ \E transition \in Transitions("walk") : Backward("walk", transition)
    /\ snap' = states["walk"]
    /\ bwd_dice' = Append(bwd_dice, last'.die)
    /\ UNCHANGED <<pc, tape, fwd_dice, policy, loop_t, reads, walk_trace, law>>

\* walk.step_forward(&transition), following a backward step
OriginForward ==
    /\ pc = "origin" /\ ~panicked /\ steps >= 1
    /\ \E transition \in Transitions("walk") : Forward("walk", transition)
    /\ pc' = "replayed"
    /\ fwd_dice' = Append(fwd_dice, last'.die)
    /\ UNCHANGED <<tape, snap, bwd_dice, policy, loop_t, reads, walk_trace, law>>

NextOrigin == OriginBackward \/ OriginForward

SpecOrigin == InitOrigin /\ [][NextOrigin]_vars

\* C11: backward past the origin.  From a State whose past_dice is empty,
\* step_backward succeeds, moves t to t - 1 (a negative value from t = 0),
\* uses the die roll_die(t - 1), which is in [0,6), and pushes it on
\* future_dice; a following step_forward replays that die and draws none.
C11_BackwardPastOrigin ==
    /\ (pc = "origin" /\ steps >= 1) =>
           /\ snap.past_dice = <<>>
           /\ ~panicked
           /\ snap.t > MinI32
           /\ states["walk"].t = snap.t - 1
           /\ snap.t <= 0 => states["walk"].t < 0
           /\ last.rolled /\ last.key_index = states["walk"].t
           /\ last.die \in Dice
           /\ last.die = chacha[generator_key(snap.microstate_seed, states["walk"].t)]
           /\ states["walk"].future_dice = Append(snap.future_dice, last.die)
    /\ pc = "replayed" =>
           /\ ~panicked
           /\ last.cached /\ ~last.rolled
           /\ last.die = bwd_dice[Len(bwd_dice)]
           /\ states["walk"].t = snap.t
           /\ source_calls["walk"][last.interval] = 1

---------------------------------------------------------------------------
(* The twin driver: two States with one seed and one initial macrostate,   *)
(* handed the same calls in the same order                                 *)

\* Calls handed to each of the twins
MaxTwin == 3

\* The Transitions handed to the twins
TwinTransitions == {idle, random_step, record(Recorded)}

InitTwin ==
    /\ \E w \in InitialStates(Seeds), fs \in FaceSets : Start(Pair(w, w), fs)
    /\ pc = "lead"
    /\ law = NoLaw

TwinLeadForward ==
    /\ pc = "lead" /\ ~panicked /\ steps < 2 * MaxTwin
    /\ \E transition \in TwinTransitions : Forward("walk", transition)
    /\ pc' = "follow"
    /\ UNCHANGED <<tape, snap, fwd_dice, bwd_dice, policy, loop_t, reads, walk_trace, law>>

TwinLeadBackward ==
    /\ pc = "lead" /\ ~panicked /\ steps < 2 * MaxTwin
    /\ \E transition \in TwinTransitions : Backward("walk", transition)
    /\ pc' = "follow"
    /\ UNCHANGED <<tape, snap, fwd_dice, bwd_dice, policy, loop_t, reads, walk_trace, law>>

\* The second State is handed the call the first one was handed
TwinFollow ==
    /\ pc = "follow" /\ ~panicked
    /\ IF last.dir = "forward"
       THEN Forward("memory", last.transition)
       ELSE Backward("memory", last.transition)
    /\ pc' = "lead"
    /\ UNCHANGED <<tape, snap, fwd_dice, bwd_dice, policy, loop_t, reads, walk_trace, law>>

NextTwin == TwinLeadForward \/ TwinLeadBackward \/ TwinFollow

SpecTwin == InitTwin /\ [][NextTwin]_vars

\* C12: determinism of the whole trajectory.  Two States with the same seed
\* and the same initial macrostate, driven by the same calls with the same
\* Transitions, have equal t, macrostate, past_dice and future_dice after
\* every step; roll_die returns the same value for the same seed and time
\* index, negative ones included, at every call.
C12_Determinism ==
    (pc = "lead" /\ ~panicked) =>
        /\ states["walk"].t = states["memory"].t
        /\ states["walk"].macrostate = states["memory"].macrostate
        /\ states["walk"].past_dice = states["memory"].past_dice
        /\ states["walk"].future_dice = states["memory"].future_dice
        /\ DOMAIN first_die["walk"] = DOMAIN first_die["memory"]
        /\ \A i \in DOMAIN first_die["walk"] :
               /\ first_die["walk"][i] = first_die["memory"][i]
               /\ first_die["walk"][i] =
                      chacha[generator_key(states["walk"].microstate_seed, i)]

\* C12 witness: each twin has taken three steps, stands at a negative time
\* index with dice on both sides, and roll_die was called by both for a
\* negative index and returned a die that is not 0
C12_Witness ==
    /\ pc = "lead" /\ ~panicked /\ steps = 6
    /\ states["memory"].t < 0 /\ states["memory"].t > -3
    /\ states["memory"].past_dice # <<>> /\ states["memory"].future_dice # <<>>
    /\ states["memory"].macrostate # first_macro["memory"][0]
    /\ \E i \in DOMAIN source_calls["memory"] :
           /\ i < 0 /\ i \in DOMAIN source_calls["walk"]
           /\ first_die["memory"][i] > 0

---------------------------------------------------------------------------
(* One step of the free driver, against the State it started from          *)

\* The generator's output for time index i of State s, as revealed
source_die(s, i) == chacha[generator_key(s.microstate_seed, i)]

\* C13: the step_forward algorithm.  With future_dice non-empty the die is
\* its tail element, which is removed, and the die source is not consulted;
\* with future_dice empty the die is roll_die(t) at the t before the
\* increment, and future_dice stays empty.  In both cases macrostate becomes
\* evolve_forward(macrostate, die), the die is appended to the tail of
\* past_dice, and t is incremented last.
C13_StepForward ==
    (Returned /\ last.dir = "forward") =>
        LET b == last.before
            nf == Len(b.future_dice)
        IN  /\ IF nf > 0
               THEN /\ last.die = b.future_dice[nf]
                    /\ After.future_dice = SubSeq(b.future_dice, 1, nf - 1)
                    /\ ~last.rolled
               ELSE /\ last.rolled
                    /\ last.key_index = b.t
                    /\ last.die = source_die(b, b.t)
                    /\ After.future_dice = <<>>
            /\ After.macrostate = evolve_forward(last.transition, b.macrostate, last.die).val
            /\ Len(After.past_dice) = Len(b.past_dice) + 1
            /\ SubSeq(After.past_dice, 1, Len(b.past_dice)) = b.past_dice
            /\ After.past_dice[Len(After.past_dice)] = last.die
            /\ After.t = wrapping_add(b.t, 1)

\* C13 witness: a forward step took a die that is not 0 from a future_dice
\* of two different dice and moved the macrostate by it
C13_Witness ==
    /\ Returned /\ last.dir = "forward"
    /\ Len(last.before.future_dice) = 2
    /\ last.before.future_dice[1] # last.before.future_dice[2]
    /\ last.transition = random_step /\ last.die > 0
    /\ After.macrostate # last.before.macrostate

\* C14: the step_backward ordering.  t is decremented before the die is
\* determined, so a first-visit backward step from t consults roll_die(t - 1),
\* the index a first-visit forward step from t - 1 consults; with past_dice
\* non-empty the die is its tail element, which is removed.  In both cases
\* macrostate becomes evolve_backward(macrostate, die) and the die is
\* appended to the tail of future_dice.
C14_StepBackward ==
    (Returned /\ last.dir = "backward") =>
        LET b == last.before
            np == Len(b.past_dice)
        IN  /\ After.t = wrapping_sub(b.t, 1)
            /\ IF np > 0
               THEN /\ last.die = b.past_dice[np]
                    /\ After.past_dice = SubSeq(b.past_dice, 1, np - 1)
                    /\ ~last.rolled
               ELSE /\ last.rolled
                    /\ last.key_index = wrapping_sub(b.t, 1)
                    /\ last.key_index = forward_index(After)
                    /\ last.die = source_die(b, wrapping_sub(b.t, 1))
                    /\ After.past_dice = <<>>
            /\ After.macrostate = evolve_backward(last.transition, b.macrostate, last.die).val
            /\ Len(After.future_dice) = Len(b.future_dice) + 1
            /\ SubSeq(After.future_dice, 1, Len(b.future_dice)) = b.future_dice
            /\ After.future_dice[Len(After.future_dice)] = last.die

\* C14 witness: a first-visit backward step from a State whose future_dice
\* already held a different die drew a die that is not 0 and moved the
\* macrostate by it
C14_Witness ==
    /\ Returned /\ last.dir = "backward"
    /\ last.rolled
    /\ Len(last.before.future_dice) = 1
    /\ last.before.future_dice[1] # last.die
    /\ last.transition = random_step /\ last.die > 0
    /\ After.macrostate # last.before.macrostate

\* C15: the cache agrees with the die source.  After any sequence of steps
\* on a State made by new or peturbed, past_dice[j] is roll_die(t - len + j)
\* and future_dice[j] is roll_die(t + len - 1 - j), counting j from 0: the two
\* histories cover one contiguous range of time indices around t.  (Below j
\* counts from 1.)
C15_CacheAgreesWithSource ==
    ~panicked =>
        \A id \in Ids :
            LET s == states[id]
                np == Len(s.past_dice)
                nf == Len(s.future_dice)
            IN  /\ \A j \in 1 .. np :
                       /\ ~sub_overflows(s.t, np - j + 1)
                       /\ generator_key(s.microstate_seed, s.t - (np - j + 1)) \in DOMAIN chacha
                       /\ s.past_dice[j] = source_die(s, s.t - (np - j + 1))
                /\ \A j \in 1 .. nf :
                       /\ ~add_overflows(s.t, nf - j)
                       /\ generator_key(s.microstate_seed, s.t + (nf - j)) \in DOMAIN chacha
                       /\ s.future_dice[j] = source_die(s, s.t + (nf - j))

---------------------------------------------------------------------------
(* The derive driver: walk takes some steps, memory is made from it by     *)
(* peturbed, and then either of them steps                                 *)

\* Steps walk takes before the derivation
MaxBefore == 2

\* Steps taken after the derivation
MaxAfter == 1

InitDerive ==
    /\ \E w \in InitialStates({<<0, 0>>}), fs \in FaceSets :
           Start(Pair(w, new(0, <<-1, 5>>)), fs)
    /\ pc = "parent"
    /\ law = NoLaw

ParentForward ==
    /\ pc = "parent" /\ ~panicked /\ steps < MaxBefore
    /\ Forward("walk", random_step)
    /\ DriverIdle

ParentBackward ==
    /\ pc = "parent" /\ ~panicked /\ steps < MaxBefore
    /\ Backward("walk", random_step)
    /\ DriverIdle

\* memory = State::peturbed(&walk); snap keeps the parent as it was read
Derive ==
    /\ pc = "parent" /\ ~panicked
    /\ \E microstate_seed \in Seeds :
           states' = [states EXCEPT !["memory"] = peturbed(states["walk"], microstate_seed)]
    /\ pc' = "derived"
    /\ snap' = states["walk"]
    /\ first_die' = [first_die EXCEPT !["memory"] = <<>>]
    /\ source_calls' = [source_calls EXCEPT !["memory"] = <<>>]
    /\ first_macro' = [first_macro EXCEPT !["memory"] =
                          (states["walk"].t :> states["walk"].macrostate)]
    /\ last' = NoStep
    /\ UNCHANGED <<overflow_checks, panicked, chacha, faces, steps, tape, fwd_dice,
                   bwd_dice, policy, loop_t, reads, walk_trace, law>>

\* The Transitions handed to instance id after the derivation
DerivedTransitions(id) ==
    {random_step} \cup {record(states[o].macrostate) : o \in Ids \ {id}}

DerivedForward ==
    /\ pc = "derived" /\ ~panicked /\ Len(tape) < MaxAfter
    /\ \E id \in Ids : \E transition \in DerivedTransitions(id) :
           /\ Forward(id, transition)
           /\ tape' = Append(tape, transition)
    /\ UNCHANGED <<pc, snap, fwd_dice, bwd_dice, policy, loop_t, reads, walk_trace, law>>

DerivedBackward ==
    /\ pc = "derived" /\ ~panicked /\ Len(tape) < MaxAfter
    /\ \E id \in Ids : \E transition \in DerivedTransitions(id) :
           /\ Backward(id, transition)
           /\ tape' = Append(tape, transition)
    /\ UNCHANGED <<pc, snap, fwd_dice, bwd_dice, policy, loop_t, reads, walk_trace, law>>

NextDerive ==
    \/ ParentForward
    \/ ParentBackward
    \/ Derive
    \/ DerivedForward
    \/ DerivedBackward

SpecDerive == InitDerive /\ [][NextDerive]_vars

\* C16: instance isolation.  A step_forward or step_backward on one State
\* changes only that State's t, macrostate, past_dice and future_dice; every
\* other State, the one whose macrostate was read for a record Transition and
\* the parent of a State made by peturbed included, keeps all its fields.
C16_InstanceIsolation ==
    [][steps' = steps + 1 =>
           /\ \A o \in Ids \ {last'.who} : states'[o] = states[o]
           /\ states'[last'.who].microstate_seed = states[last'.who].microstate_seed]_vars

\* C16 witness: the State made by peturbed has stepped with record of its
\* parent's macrostate, which is not 0; the parent, which has dice of its own,
\* is as it was when the new State was made, and the new State is not
C16_Witness ==
    /\ pc = "derived" /\ Returned
    /\ last.who = "memory"
    /\ last.transition.kind = "record" /\ last.transition.val # 0
    /\ states["walk"] = snap
    /\ snap.past_dice # <<>>
    /\ states["memory"].macrostate # snap.macrostate

\* C17: peturbed.  For any parent State the new State has the parent's
\* current t and macrostate and empty past_dice and future_dice; the parent
\* is not modified; the first step of the new State, in either direction,
\* takes the first-visit path, keyed from the copied time index (t going
\* forward, t - 1 going backward).
C17_Peturbed ==
    /\ (pc = "derived" /\ tape = <<>>) =>
           /\ states["memory"].t = snap.t
           /\ states["memory"].macrostate = snap.macrostate
           /\ states["memory"].past_dice = <<>>
           /\ states["memory"].future_dice = <<>>
           /\ states["walk"] = snap
    /\ (/\ pc = "derived" /\ last.who = "memory" /\ last.began
        /\ last.before.past_dice = <<>> /\ last.before.future_dice = <<>>) =>
           /\ last.before.t = snap.t
           /\ last.rolled /\ ~last.cached
           /\ last.key_index = IF last.dir = "forward" THEN snap.t
                               ELSE wrapping_sub(snap.t, 1)
           /\ last.die = source_die(last.before, last.key_index)

\* C17 witness: a State made from a parent that had two dice in past_dice
\* and stood at a time index other than 0 has taken its first step, a
\* backward one, drawing a die
C17_Witness ==
    /\ pc = "derived" /\ Returned
    /\ last.who = "memory" /\ last.dir = "backward" /\ last.rolled
    /\ Len(snap.past_dice) = 2
    /\ snap.t # 0
    /\ last.before.t = snap.t /\ last.before.past_dice = <<>>

---------------------------------------------------------------------------
(* Display                                                                 *)

\* What write!(f, " {}", die) puts out, as a token
die_token(die) == [kind |-> "die", val |-> die]

\* What write!(f, " ({}) ", self.macrostate) puts out, as a token
macrostate_token(macrostate) == [kind |-> "macrostate", val |-> macrostate]

\* <State as fmt::Display>::fmt: the t of the heading, and the tokens in the
\* order they are written
fmt(self) ==
    [t |-> self.t,
     items |-> [k \in 1 .. Len(self.past_dice) |-> die_token(self.past_dice[k])]
               \o <<macrostate_token(self.macrostate)>>
               \o [k \in 1 .. Len(self.future_dice) |->
                      die_token(self.future_dice[Len(self.future_dice) + 1 - k])]]

\* C18: the display order.  The rendering lists past_dice from head to tail,
\* then the macrostate, then future_dice from tail to head; in every
\* reachable State the dice so listed are in strictly ascending time-index
\* order, the macrostate standing between the die of index t - 1 and the die
\* of index t.
C18_DisplayOrder ==
    ~panicked =>
        \A id \in Ids :
            LET s == states[id]
                items == fmt(s).items
                np == Len(s.past_dice)
                nf == Len(s.future_dice)
            IN  /\ Len(items) = np + 1 + nf
                /\ items[np + 1] = macrostate_token(s.macrostate)
                /\ \A k \in 1 .. np :
                       /\ items[k] = die_token(s.past_dice[k])
                       /\ ~sub_overflows(s.t, np - k + 1)
                       /\ s.t - (np - k + 1) \in DOMAIN first_die[id]
                       /\ items[k].val = first_die[id][s.t - (np - k + 1)]
                /\ \A k \in 1 .. nf :
                       /\ items[np + 1 + k] = die_token(s.future_dice[nf + 1 - k])
                       /\ ~add_overflows(s.t, k - 1)
                       /\ s.t + (k - 1) \in DOMAIN first_die[id]
                       /\ items[np + 1 + k].val = first_die[id][s.t + (k - 1)]

---------------------------------------------------------------------------
(* The range of the dice                                                   *)

\* C19: the die range invariant.  In every reachable State every element of
\* past_dice and of future_dice, and every die handed to evolve_forward or
\* evolve_backward, is an integer in [0,6).
C19_DieRange ==
    /\ \A id \in Ids :
           /\ \A j \in 1 .. Len(states[id].past_dice) :
                  states[id].past_dice[j] \in Int /\ states[id].past_dice[j] \in Dice
           /\ \A j \in 1 .. Len(states[id].future_dice) :
                  states[id].future_dice[j] \in Int /\ states[id].future_dice[j] \in Dice
    /\ last.began => last.die \in Dice
    /\ \A key \in DOMAIN chacha : chacha[key] \in Dice

\* C19 witness: a State holds the largest die in past_dice and the smallest
\* in future_dice, after a step that handed a die to random_step
C19_Witness ==
    /\ Returned /\ last.transition = random_step
    /\ \E j \in 1 .. Len(After.past_dice) : After.past_dice[j] = 5
    /\ \E j \in 1 .. Len(After.future_dice) : After.future_dice[j] = 0

---------------------------------------------------------------------------
(* The key of the generator, for two time indices of one seed              *)

\* Seeds the keying is tried on
KeySeeds == Seeds \cup {<<5, -1>>, <<MinI32, MaxI32>>, <<MaxI32, MinI32>>, <<-6, 1>>}

\* Time indices the keying is tried on: both ends of i32, and both sides of 0
KeyTimes == {MinI32, MinI32 + 1, -6, -5, -1, 0, 1, 5, 6, MaxI32 - 1, MaxI32}

\* No key computed yet
NoKey == <<0, 0>>

InitKey ==
    /\ Start(Pair(new(0, <<0, 0>>), new(0, <<0, 0>>)), Dice)
    /\ pc = "key"
    /\ \E microstate_seed \in KeySeeds, t1 \in KeyTimes, t2 \in KeyTimes :
           law = [pc |-> "input", microstate_seed |-> microstate_seed,
                  t1 |-> t1, t2 |-> t2, key1 |-> NoKey, key2 |-> NoKey]

\* (self.roll_die)(t1 as u64) seeds the generator
KeyFirst ==
    /\ law.pc = "input"
    /\ law' = [law EXCEPT !.pc = "first",
                          !.key1 = generator_key(law.microstate_seed, law.t1)]
    /\ UNCHANGED <<states, overflow_checks, panicked, chacha, faces, first_die,
                   source_calls, first_macro, last, steps, pc, tape, snap,
                   fwd_dice, bwd_dice, policy, loop_t, reads, walk_trace>>

\* (self.roll_die)(t2 as u64) seeds the generator
KeySecond ==
    /\ law.pc = "first"
    /\ law' = [law EXCEPT !.pc = "both",
                          !.key2 = generator_key(law.microstate_seed, law.t2)]
    /\ UNCHANGED <<states, overflow_checks, panicked, chacha, faces, first_die,
                   source_calls, first_macro, last, steps, pc, tape, snap,
                   fwd_dice, bwd_dice, policy, loop_t, reads, walk_trace>>

NextKey == KeyFirst \/ KeySecond

SpecKey == InitKey /\ [][NextKey]_vars

\* C20: generator keying.  The die of time index t comes from a generator
\* seeded with microstate_seed XOR t, t converted from i32 to u64 by sign
\* extension; for one seed, distinct i32 time indices, negative ones
\* included, give distinct generator seeds.
C20_GeneratorKeying ==
    law.pc = "both" =>
        /\ Xor32(law.key1[2], law.microstate_seed[2]) = law.t1
        /\ Xor32(law.key1[1], law.microstate_seed[1]) = (IF law.t1 < 0 THEN -1 ELSE 0)
        /\ Xor32(law.key2[2], law.microstate_seed[2]) = law.t2
        /\ Xor32(law.key2[1], law.microstate_seed[1]) = (IF law.t2 < 0 THEN -1 ELSE 0)
        /\ law.t1 # law.t2 => law.key1 # law.key2
        /\ law.t1 = law.t2 => law.key1 = law.key2

\* C20 witness: t and -t, keyed with a seed that has bits set in both halves,
\* give keys that differ in the high half
C20_Witness ==
    /\ law.pc = "both"
    /\ law.t1 = -5 /\ law.t2 = 5
    /\ law.microstate_seed = <<5, -1>>
    /\ law.key1 = <<-6, 4>> /\ law.key2 = <<5, -6>>

=============================================================================
